---------------------------- MODULE Spec2Model ----------------------------
(***************************************************************************)
(* RTD calculator (src/main.py): the Callendar-Van Dusen forward formula   *)
(* resistance_from_temperature and its inversion temperature_from_         *)
(* resistance, which calls scipy.optimize.newton without a derivative (the *)
(* secant iteration).  All arithmetic of the script is IEEE-754 binary64;  *)
(* the model computes it bit for bit: a float is a sign, a mantissa of at  *)
(* most 53 bits held as a sequence of 15-bit limbs, and a binary exponent, *)
(* and every operation rounds to nearest, ties to even.                    *)
(***************************************************************************)
EXTENDS Integers, Sequences, FiniteSets

(***************************************************************************)
(* Natural numbers of any size: little-endian sequences of limbs, no       *)
(* leading zero limb, zero is << >>.                                       *)
(***************************************************************************)
LimbBits == 15
LimbBase == 2 ^ LimbBits

RECURSIVE BNNorm(_)
BNNorm(a) ==
  IF a = << >> THEN << >>
  ELSE IF a[Len(a)] = 0 THEN BNNorm(SubSeq(a, 1, Len(a) - 1)) ELSE a

RECURSIVE BNFromInt(_)
BNFromInt(n) ==
  IF n = 0 THEN << >> ELSE <<n % LimbBase>> \o BNFromInt(n \div LimbBase)

RECURSIVE BNAddC(_, _, _)
BNAddC(a, b, c) ==
  IF a = << >> /\ b = << >> THEN (IF c = 0 THEN << >> ELSE <<c>>)
  ELSE LET x == (IF a = << >> THEN 0 ELSE Head(a))
                + (IF b = << >> THEN 0 ELSE Head(b)) + c
       IN  <<x % LimbBase>>
           \o BNAddC(IF a = << >> THEN << >> ELSE Tail(a),
                     IF b = << >> THEN << >> ELSE Tail(b),
                     x \div LimbBase)

BNAdd(a, b) == BNAddC(a, b, 0)

\* a - b for a >= b
RECURSIVE BNSubB(_, _, _)
BNSubB(a, b, br) ==
  IF a = << >> THEN << >>
  ELSE LET x == Head(a) - (IF b = << >> THEN 0 ELSE Head(b)) - br
       IN  <<(x + LimbBase) % LimbBase>>
           \o BNSubB(Tail(a), IF b = << >> THEN << >> ELSE Tail(b),
                     IF x < 0 THEN 1 ELSE 0)

BNSub(a, b) == BNNorm(BNSubB(a, b, 0))

RECURSIVE BNCmpAt(_, _, _)
BNCmpAt(a, b, i) ==
  IF i = 0 THEN 0
  ELSE IF a[i] < b[i] THEN -1
  ELSE IF a[i] > b[i] THEN 1
  ELSE BNCmpAt(a, b, i - 1)

\* -1, 0, 1 as a < b, a = b, a > b
BNCmp(a, b) ==
  IF Len(a) < Len(b) THEN -1
  ELSE IF Len(a) > Len(b) THEN 1
  ELSE BNCmpAt(a, b, Len(a))

RECURSIVE BNMulLimbC(_, _, _)
BNMulLimbC(a, d, c) ==
  IF a = << >> THEN (IF c = 0 THEN << >> ELSE <<c>>)
  ELSE LET x == Head(a) * d + c
       IN  <<x % LimbBase>> \o BNMulLimbC(Tail(a), d, x \div LimbBase)

BNMulLimb(a, d) == IF d = 0 THEN << >> ELSE BNMulLimbC(a, d, 0)

BNShiftLimbs(a, k) ==
  IF a = << >> THEN << >> ELSE [i \in 1..k |-> 0] \o a

RECURSIVE BNMul(_, _)
BNMul(a, b) ==
  IF a = << >> \/ b = << >> THEN << >>
  ELSE BNAdd(BNMulLimb(a, Head(b)), BNShiftLimbs(BNMul(a, Tail(b)), 1))

RECURSIVE IntBits(_)
IntBits(n) == IF n = 0 THEN 0 ELSE 1 + IntBits(n \div 2)

BNBitLen(a) ==
  IF a = << >> THEN 0 ELSE LimbBits * (Len(a) - 1) + IntBits(a[Len(a)])

BNShl(a, n) ==
  BNShiftLimbs(BNMulLimb(a, 2 ^ (n % LimbBits)), n \div LimbBits)

\* quotient of a by one limb d, limbs 1..i, r the remainder carried down
RECURSIVE BNDivLimbAt(_, _, _, _)
BNDivLimbAt(a, d, i, r) ==
  IF i = 0 THEN << >>
  ELSE LET x == r * LimbBase + a[i]
       IN  Append(BNDivLimbAt(a, d, i - 1, x % d), x \div d)

BNShr(a, n) ==
  LET k == n \div LimbBits
      b == IF k >= Len(a) THEN << >> ELSE SubSeq(a, k + 1, Len(a))
  IN  BNNorm(BNDivLimbAt(b, 2 ^ (n % LimbBits), Len(b), 0))

BNIsOdd(a) == a # << >> /\ a[1] % 2 = 1

\* the largest q in lo..hi with q * d <= r, given lo * d <= r
RECURSIVE BNQDigit(_, _, _, _)
BNQDigit(r, d, lo, hi) ==
  IF lo = hi THEN lo
  ELSE LET mid == (lo + hi + 1) \div 2
       IN  IF BNCmp(BNMulLimb(d, mid), r) <= 0
           THEN BNQDigit(r, d, mid, hi)
           ELSE BNQDigit(r, d, lo, mid - 1)

\* long division of limbs 1..i of n by d, r the remainder carried down
RECURSIVE BNDivAt(_, _, _, _)
BNDivAt(n, d, i, r) ==
  IF i = 0 THEN [q |-> << >>, r |-> r]
  ELSE LET r1   == BNNorm(<<n[i]>> \o r)
           qd   == BNQDigit(r1, d, 0, LimbBase - 1)
           r2   == BNSub(r1, BNMulLimb(d, qd))
           rest == BNDivAt(n, d, i - 1, r2)
       IN  [q |-> Append(rest.q, qd), r |-> rest.r]

\* [q, r] with n = q * d + r, 0 <= r < d, for d > 0
BNDivMod(n, d) ==
  LET x == BNDivAt(n, d, Len(n), << >>) IN [q |-> BNNorm(x.q), r |-> x.r]

RECURSIVE BNPow10(_)
BNPow10(k) == IF k = 0 THEN <<1>> ELSE BNMulLimb(BNPow10(k - 1), 10)


(***************************************************************************)
(* IEEE-754 binary64.  A finite value is (-1)^s * m * 2^e with m below     *)
(* 2^53; a normal value has a 53-bit m, a subnormal one has e = MinExp,    *)
(* zero has m = << >> and e = 0.  k tells finite values from the           *)
(* infinities and NaN.                                                     *)
(***************************************************************************)
MantBits == 53
MinExp == -1074
MaxExp == 971

Zero == [k |-> "fin", s |-> 0, m |-> << >>, e |-> 0]
NegZero == [k |-> "fin", s |-> 1, m |-> << >>, e |-> 0]
NaN == [k |-> "nan", s |-> 0, m |-> << >>, e |-> 0]
Inf(s) == [k |-> "inf", s |-> s, m |-> << >>, e |-> 0]

IsNaN(a) == a.k = "nan"
IsInf(a) == a.k = "inf"
IsFinite(a) == a.k = "fin"
IsZero(a) == a.k = "fin" /\ a.m = << >>

FMk(s, m, e) ==
  IF m = << >> THEN (IF s = 0 THEN Zero ELSE NegZero)
  ELSE IF e > MaxExp THEN Inf(s)
  ELSE [k |-> "fin", s |-> s, m |-> m, e |-> e]

\* q * 2^e, q a rounded mantissa that may have reached 2^53
FRenorm(s, q, e, carry) ==
  FMk(s, IF carry THEN BNShr(q, 1) ELSE q, IF carry THEN e + 1 ELSE e)

\* q * 2^e rounded up by one unit when the part c cut off below q is above one
\* half (c = 1), or is one half (c = 0) and the tie goes up
FRoundUp(s, q, e, up) ==
  FRenorm(s, IF up THEN BNAdd(q, <<1>>) ELSE q, e,
          BNBitLen(IF up THEN BNAdd(q, <<1>>) ELSE q) > MantBits)

\* n cut to q = n \div 2^sh
FRoundCut(s, n, q, sh, e, sticky) ==
  FRoundUp(s, q, e,
           \/ BNCmp(BNSub(n, BNShl(q, sh)), BNShl(<<1>>, sh - 1)) > 0
           \/ /\ BNCmp(BNSub(n, BNShl(q, sh)), BNShl(<<1>>, sh - 1)) = 0
              /\ (sticky \/ BNIsOdd(q)))

\* n * 2^e brought to the exponent et
FRoundTo(s, n, e, sticky, et) ==
  IF n = << >> THEN FMk(s, << >>, 0)
  ELSE IF et <= e THEN FMk(s, BNShl(n, e - et), et)
  ELSE FRoundCut(s, n, BNShr(n, et - e), et - e, et, sticky)

\* (-1)^s * (n + sticky) * 2^e rounded to nearest, ties to even; sticky stands
\* for a nonzero part below the last bit of n
FRound(s, n, e, sticky) ==
  FRoundTo(s, n, e, sticky,
           IF e + BNBitLen(n) - MantBits < MinExp THEN MinExp
           ELSE e + BNBitLen(n) - MantBits)

FNeg(a) == IF IsNaN(a) THEN a ELSE [a EXCEPT !.s = 1 - a.s]
FAbs(a) == IF IsNaN(a) THEN a ELSE [a EXCEPT !.s = 0]

\* order of the magnitudes of two finite values
FCmpMag(a, b) ==
  IF a.m = << >> THEN (IF b.m = << >> THEN 0 ELSE -1)
  ELSE IF b.m = << >> THEN 1
  ELSE IF a.e < b.e THEN -1
  ELSE IF a.e > b.e THEN 1
  ELSE BNCmp(a.m, b.m)

\* the order of two values: -1, 0, 1, and 2 when one is NaN (unordered: every
\* comparison but != is false)
FCmp(a, b) ==
  IF IsNaN(a) \/ IsNaN(b) THEN 2
  ELSE IF IsInf(a) \/ IsInf(b)
  THEN (IF IsInf(a) /\ IsInf(b) /\ a.s = b.s THEN 0
        ELSE IF (IsInf(a) /\ a.s = 1) \/ (IsInf(b) /\ b.s = 0) THEN -1
        ELSE 1)
  ELSE IF IsZero(a) /\ IsZero(b) THEN 0
  ELSE IF a.s # b.s THEN (IF a.s = 1 THEN -1 ELSE 1)
  ELSE FCmpMag(IF a.s = 0 THEN a ELSE b, IF a.s = 0 THEN b ELSE a)

FEq(a, b) == FCmp(a, b) = 0
FLt(a, b) == FCmp(a, b) = -1
FLe(a, b) == FCmp(a, b) \in {-1, 0}
FGt(a, b) == FCmp(a, b) = 1
FGe(a, b) == FCmp(a, b) \in {0, 1}

\* the sum of the aligned mantissas hm and lm, scaled by 2^e, with signs hs and
\* ls; c is the order of hm and lm
FAddMant(hs, ls, hm, lm, e, c) ==
  IF hs # ls /\ c = 0 THEN Zero
  ELSE FRound(IF hs = ls \/ c > 0 THEN hs ELSE ls,
              IF hs = ls THEN BNAdd(hm, lm)
              ELSE IF c > 0 THEN BNSub(hm, lm) ELSE BNSub(lm, hm),
              e, FALSE)

\* hm * 2^e + lm * 2^e
FAddAligned(hs, ls, hm, lm, e) == FAddMant(hs, ls, hm, lm, e, BNCmp(hm, lm))

\* the sum of two finite nonzero values, hi the one with the larger exponent;
\* an addend more than AlignMax binary places below hi only decides the rounding
AlignMax == 64
FAddFin(hi, lo) ==
  IF hi.e - lo.e > AlignMax
  THEN FAddAligned(hi.s, lo.s, BNShl(hi.m, AlignMax), <<1>>, hi.e - AlignMax)
  ELSE FAddAligned(hi.s, lo.s, BNShl(hi.m, hi.e - lo.e), lo.m, lo.e)

FAdd(a, b) ==
  IF IsNaN(a) \/ IsNaN(b) THEN NaN
  ELSE IF IsInf(a) THEN (IF IsInf(b) /\ a.s # b.s THEN NaN ELSE a)
  ELSE IF IsInf(b) THEN b
  ELSE IF IsZero(a) THEN (IF IsZero(b) /\ a.s # b.s THEN Zero ELSE b)
  ELSE IF IsZero(b) THEN a
  ELSE FAddFin(IF a.e >= b.e THEN a ELSE b, IF a.e >= b.e THEN b ELSE a)

FSub(a, b) == FAdd(a, FNeg(b))

FMul(a, b) ==
  IF IsNaN(a) \/ IsNaN(b) THEN NaN
  ELSE IF IsInf(a) \/ IsInf(b)
       THEN (IF IsZero(a) \/ IsZero(b) THEN NaN ELSE Inf((a.s + b.s) % 2))
  ELSE FRound((a.s + b.s) % 2, BNMul(a.m, b.m), a.e + b.e, FALSE)

\* the quotient d.q with remainder d.r of a division, scaled by 2^e
FRoundQuot(s, d, e) == FRound(s, d.q, e, d.r # << >>)

\* num * 2^sh / den, scaled by 2^(e - sh)
FRoundShifted(s, num, den, e, sh) ==
  FRoundQuot(s, BNDivMod(BNShl(num, sh), den), e - sh)

\* num / den for naturals, den > 0, scaled by 2^e: the quotient is taken to
\* GuardBits bits beyond the mantissa and the remainder decides the rounding
GuardBits == 3
FRoundRatio(s, num, den, e) ==
  FRoundShifted(s, num, den, e,
                IF MantBits + GuardBits + BNBitLen(den) > BNBitLen(num)
                THEN MantBits + GuardBits + BNBitLen(den) - BNBitLen(num)
                ELSE 0)

FDiv(a, b) ==
  IF IsNaN(a) \/ IsNaN(b) THEN NaN
  ELSE IF IsInf(a) THEN (IF IsInf(b) THEN NaN ELSE Inf((a.s + b.s) % 2))
  ELSE IF IsInf(b) THEN FMk((a.s + b.s) % 2, << >>, 0)
  ELSE IF IsZero(b) THEN (IF IsZero(a) THEN NaN ELSE Inf((a.s + b.s) % 2))
  ELSE IF IsZero(a) THEN FMk((a.s + b.s) % 2, << >>, 0)
  ELSE FRoundRatio((a.s + b.s) % 2, a.m, b.m, a.e - b.e)

RECURSIVE BNPow(_, _)
BNPow(a, n) == IF n = 0 THEN <<1>> ELSE BNMul(BNPow(a, n - 1), a)

\* x ** n for an integer n >= 1: the exact power, rounded once
FPow(x, n) ==
  IF IsNaN(x) THEN NaN
  ELSE IF IsInf(x) THEN Inf(IF n % 2 = 1 THEN x.s ELSE 0)
  ELSE FRound(IF n % 2 = 1 THEN x.s ELSE 0, BNPow(x.m, n), n * x.e, FALSE)

\* the float of the decimal literal (-1)^s * n * 10^k, n a natural number
FromDec(s, n, k) ==
  IF n = 0 THEN FMk(s, << >>, 0)
  ELSE FRoundRatio(s, BNMul(BNFromInt(n), BNPow10(IF k > 0 THEN k ELSE 0)),
                   BNPow10(IF k < 0 THEN -k ELSE 0), 0)

FromInt(i) == FromDec(IF i < 0 THEN 1 ELSE 0, IF i < 0 THEN -i ELSE i, 0)

\* the thousandths of n / 2^sh, q the quotient cut off, by the half c
Format3Up(q, c) == IF c > 0 \/ (c = 0 /\ BNIsOdd(q)) THEN BNAdd(q, <<1>>) ELSE q

Format3Cut(n, q, sh) ==
  Format3Up(q, BNCmp(BNSub(n, BNShl(q, sh)), BNShl(<<1>>, sh - 1)))

\* a value formatted with "%.3f": the sign and the thousandths, the exact value
\* rounded to nearest, ties to even (lines 47, 53)
Format3(x) ==
  IF ~IsFinite(x) THEN [kind |-> x.k, s |-> x.s, n |-> << >>]
  ELSE IF x.e >= 0
  THEN [kind |-> "num", s |-> x.s, n |-> BNShl(BNMulLimb(x.m, 1000), x.e)]
  ELSE [kind |-> "num", s |-> x.s,
        n |-> Format3Cut(BNMulLimb(x.m, 1000),
                         BNShr(BNMulLimb(x.m, 1000), -x.e), -x.e)]

(***************************************************************************)
(* The script's constants (lines 6-15) and the solver's parameters.        *)
(***************************************************************************)
A == FromDec(0, 39083, -7)
B == FromDec(1, 5775, -10)
C_IEC == FromDec(1, 4183, -15)

Sensors == {"PT100", "PT1000"}
R0_values == [PT100 |-> FromDec(0, 1000, -1), PT1000 |-> FromDec(0, 10000, -1)]

One == FromInt(1)
Hundred == FromInt(100)

initial_guess == Zero
tol == FromDec(0, 1, -6)
rtol == Zero
eps == FromDec(0, 1, -4)
maxiter == 50

\* Python's None, shaped like a float so that it compares with one
None == [k |-> "none", s |-> 0, m |-> << >>, e |-> 0]

VARIABLES
  C,        \* the module global C (line 9)
  sensor,   \* the selected RTD type (line 38)
  mode,     \* the selected calculation (line 39)
  t,        \* the temperature input (line 44)
  R,        \* resistance_from_temperature(t, R0) (line 45)
  R_input,  \* the resistance input (line 49)
  p0, p1,   \* newton: the two latest estimates
  q0, q1,   \* newton: the residuals at p0 and p1
  p,        \* newton: the estimate just computed
  itr,      \* newton: iterations completed
  cause,    \* how newton ended: "none", "converged", "zero_slope", "maxiter"
  t_est,    \* what temperature_from_resistance returned (line 50)
  exc,      \* the exception that escaped temperature_from_resistance
  out,      \* what st.success / st.error shows (lines 47, 53, 55)
  chained,  \* the resistance input is the resistance computed from t
  pc        \* "input", "shown", "iter", "done"

vars == <<C, sensor, mode, t, R, R_input, p0, p1, q0, q1, p, itr, cause,
          t_est, exc, out, chained, pc>>

solver == <<p0, p1, q0, q1, p, itr, cause, t_est, exc>>

(***************************************************************************)
(* resistance_from_temperature (lines 18-22)                               *)
(***************************************************************************)
\* the quadratic formula with B*t in place of B*t**2
quadratic_linear(tt, R0) ==
  FMul(R0, FAdd(FAdd(One, FMul(A, tt)), FMul(B, tt)))

\* R0 * (1 + A*t + B*t**2)
quadratic(tt, R0) ==
  FMul(R0, FAdd(FAdd(One, FMul(A, tt)), FMul(B, FPow(tt, 2))))

\* the sub-zero formula without its B*t**2 term
cubic_no_square(tt, R0, c) ==
  FMul(R0, FAdd(FAdd(One, FMul(A, tt)),
                FMul(FMul(c, FSub(tt, Hundred)), FPow(tt, 3))))

\* the sub-zero formula with C*(t-100) not multiplied by t**3
cubic_no_power(tt, R0, c) ==
  FMul(R0, FAdd(FAdd(FAdd(One, FMul(A, tt)), FMul(B, FPow(tt, 2))),
                FMul(c, FSub(tt, Hundred))))

\* R0 * (1 + A*t + B*t**2 + C*(t-100)*t**3) with the cubic coefficient c
cubic(tt, R0, c) ==
  FMul(R0, FAdd(FAdd(FAdd(One, FMul(A, tt)), FMul(B, FPow(tt, 2))),
                FMul(FMul(c, FSub(tt, Hundred)), FPow(tt, 3))))

\* the formula without its sub-zero branch
CallendarVanDusen_one_branch(tt, R0, c) == quadratic(tt, R0)

\* the formula with its branches exchanged
CallendarVanDusen_exchanged(tt, R0, c) ==
  IF FGe(tt, Zero) THEN cubic(tt, R0, c) ELSE quadratic(tt, R0)

CallendarVanDusen(tt, R0, c) ==
  IF FGe(tt, Zero) THEN quadratic(tt, R0) ELSE cubic(tt, R0, c)

resistance_from_temperature(tt, R0) == CallendarVanDusen(tt, R0, C)

(***************************************************************************)
(* temperature_from_resistance (lines 25-31): scipy.optimize.newton with   *)
(* no fprime, the secant method.                                           *)
(***************************************************************************)
\* f(t) = resistance_from_temperature(t, R0) - R (lines 26-27)
f(tt, Rv, R0) == FSub(resistance_from_temperature(tt, R0), Rv)

\* the second starting point: x0 * (1 + eps), moved by eps away from zero
second_guess_from(x1) == FAdd(x1, IF FGe(x1, Zero) THEN eps ELSE FNeg(eps))
second_guess(x0) == second_guess_from(FMul(x0, FAdd(One, eps)))

\* the two starting points a and b with their residuals, ordered so that p1 has
\* the larger residual
newton_order(a, b, fa, fb) ==
  IF FLt(FAbs(fb), FAbs(fa))
  THEN [p0 |-> b, p1 |-> a, q0 |-> fb, q1 |-> fa]
  ELSE [p0 |-> a, p1 |-> b, q0 |-> fa, q1 |-> fb]

newton_points(a, b, Rv, R0) == newton_order(a, b, f(a, Rv, R0), f(b, Rv, R0))

\* newton's state before its loop
newton_start(Rv, R0, x0) == newton_points(FMul(x0, One), second_guess(x0), Rv, R0)

\* the secant update with the sign of the denominator's ratio slipped
secant_slip(a0, a1, f0, f1) ==
  IF FGt(FAbs(f1), FAbs(f0))
  THEN FDiv(FAdd(FMul(FDiv(FNeg(f0), f1), a1), a0), FAdd(One, FDiv(f0, f1)))
  ELSE FDiv(FAdd(FMul(FDiv(FNeg(f1), f0), a0), a1), FAdd(One, FDiv(f1, f0)))

\* the secant update
secant(a0, a1, f0, f1) ==
  IF FGt(FAbs(f1), FAbs(f0))
  THEN FDiv(FAdd(FMul(FDiv(FNeg(f0), f1), a1), a0), FSub(One, FDiv(f0, f1)))
  ELSE FDiv(FAdd(FMul(FDiv(FNeg(f1), f0), a0), a1), FSub(One, FDiv(f1, f0)))

\* np.isclose(a, b, atol=tol) with numpy's default rtol of 1e-5
isclose_default_rtol(a, b) ==
  IF IsFinite(a) /\ IsFinite(b)
  THEN FLe(FAbs(FSub(a, b)), FAdd(tol, FMul(FromDec(0, 1, -5), FAbs(b))))
  ELSE FEq(a, b)

\* np.isclose(a, b, rtol=rtol, atol=tol)
isclose(a, b) ==
  IF IsFinite(a) /\ IsFinite(b)
  THEN FLe(FAbs(FSub(a, b)), FAdd(tol, FMul(rtol, FAbs(b))))
  ELSE FEq(a, b)

\* for itr in range(maxiter + 1)
in_range_one_more(i) == i <= maxiter

\* for itr in range(maxiter)
in_range(i) == i < maxiter

\* a handler for ValueError in place of RuntimeError
try_except_other(res) ==
  IF res.exc = "ValueError" THEN [val |-> None, exc |-> "none"] ELSE res

\* the try / except RuntimeError around newton (lines 28-31)
try_except(res) ==
  IF res.exc = "RuntimeError" THEN [val |-> None, exc |-> "none"] ELSE res

\* lines 52-55
show_temperature(v) ==
  IF v # None THEN [kind |-> "success", text |-> Format3(v)]
  ELSE [kind |-> "error", text |-> Format3(Zero)]

NoOut == [kind |-> "none", text |-> Format3(Zero)]


(***************************************************************************)
(* The inputs the number_input widgets hand to the script.  format= only   *)
(* shapes the display, so any double can arrive: the model draws whole     *)
(* degrees on a grid, neighbours of the range ends, of 0 and of 100 at the *)
(* widget's step 0.01 and at 1e-6, and values next to zero.                *)
(***************************************************************************)
GridStep == 50
NearSteps == 2
MicroSteps == 1
TinyCount == 2
FarCount == 2
BigExp == 16

\* h * 10^-k
Dec(h, k) == IF h < 0 THEN FromDec(1, -h, -k) ELSE FromDec(0, h, -k)

Anchors == {-200, 0, 100, 850}

GridInputs ==
  {FromInt(i) : i \in {j \in (-200)..850 : (j + 200) % GridStep = 0}}

NearInputs ==
  {Dec(h, 2) : h \in {x \in {a * 100 + d : a \in Anchors,
                                           d \in (-NearSteps)..NearSteps} :
                        x >= -20000 /\ x <= 85000}}

MicroInputs ==
  {Dec(h, 6) : h \in {x \in {a * 1000000 + d : a \in Anchors,
                                               d \in (-MicroSteps)..MicroSteps} :
                        x >= -200000000 /\ x <= 850000000}}

TinyInputs == {FromDec(sg, 1, -(12 + j)) : sg \in {0, 1}, j \in 1..TinyCount}

TempInputs == GridInputs \cup NearInputs \cup MicroInputs \cup TinyInputs

\* the widget's default R0, a negative resistance, 138.506, powers of ten
\* beyond every attainable resistance, and a resistance that is not a number,
\* with which every estimate of newton is not finite
ResInputs(sn) ==
  {R0_values[sn], Dec(-10000, 3), Dec(138506, 3), FromDec(0, 1, BigExp), NaN}
    \cup {FromDec(0, 1, 2 + j) : j \in 1..FarCount}

(***************************************************************************)
(* The script                                                              *)
(***************************************************************************)
Init ==
  /\ C = C_IEC
  /\ sensor = "PT100"
  /\ mode = "Resistance from Temperature"
  /\ t = Zero
  /\ R = None
  /\ R_input = None
  /\ p0 = None /\ p1 = None /\ q0 = None /\ q1 = None /\ p = None
  /\ itr = 0
  /\ cause = "none"
  /\ t_est = None
  /\ exc = "none"
  /\ out = NoOut
  /\ chained = FALSE
  /\ pc = "input"

\* newton up to its loop (line 29), called on Rv for the sensor sn
StartNewton(sn, Rv) ==
  \E st \in {newton_start(Rv, R0_values[sn], initial_guess)} :
      /\ R_input' = Rv
      /\ p0' = st.p0 /\ p1' = st.p1 /\ q0' = st.q0 /\ q1' = st.q1
      /\ p' = None
      /\ itr' = 0
      /\ cause' = "none"
      /\ t_est' = None
      /\ exc' = "none"
      /\ out' = NoOut
      /\ pc' = "iter"

\* a run in the mode "Resistance from Temperature" (lines 43-47)
RunForward(sn, tv) ==
  /\ pc = "input"
  /\ sensor' = sn
  /\ mode' = "Resistance from Temperature"
  /\ t' = tv
  /\ R' = resistance_from_temperature(tv, R0_values[sn])
  /\ out' = [kind |-> "success", text |-> Format3(R')]
  /\ pc' = "shown"
  /\ UNCHANGED <<C, R_input, solver, chained>>

\* a run in the mode "Temperature from Resistance" (lines 48-50), up to
\* newton's loop
RunInverse(sn, Rv) ==
  /\ pc = "input"
  /\ sensor' = sn
  /\ mode' = "Temperature from Resistance"
  /\ StartNewton(sn, Rv)
  /\ UNCHANGED <<C, t, R, chained>>

\* the resistance just computed, entered as the resistance input
RunInverseOfShown ==
  /\ pc = "shown"
  /\ mode' = "Temperature from Resistance"
  /\ chained' = TRUE
  /\ StartNewton(sensor, R)
  /\ UNCHANGED <<C, sensor, t, R>>

\* newton's return or raise, through the try / except, to the display
Finish(res, why) ==
  \E r \in {try_except(res)} :
      /\ t_est' = r.val
      /\ exc' = r.exc
      /\ cause' = why
      /\ out' = IF r.exc = "none" THEN show_temperature(r.val) ELSE NoOut
      /\ pc' = "done"

\* one pass of newton's loop
NewtonIter ==
  /\ pc = "iter"
  /\ in_range(itr)
  /\ IF FEq(q1, q0)
     THEN /\ p' = p
          /\ IF ~FEq(p1, p0)
             THEN Finish([val |-> None, exc |-> "RuntimeError"], "zero_slope")
             ELSE Finish([val |-> FDiv(FAdd(p1, p0), FromInt(2)),
                          exc |-> "none"], "converged")
          /\ UNCHANGED <<p0, p1, q0, q1, itr>>
     ELSE \E pn \in {secant(p0, p1, q0, q1)} :
              /\ p' = pn
              /\ IF isclose(pn, p1)
                 THEN /\ Finish([val |-> pn, exc |-> "none"], "converged")
                      /\ UNCHANGED <<p0, p1, q0, q1, itr>>
                 ELSE /\ p0' = p1 /\ q0' = q1
                      /\ p1' = pn
                      /\ q1' = f(pn, R_input, R0_values[sensor])
                      /\ itr' = itr + 1
                      /\ UNCHANGED <<cause, t_est, exc, out, pc>>
  /\ UNCHANGED <<C, sensor, mode, t, R, R_input, chained>>

\* the loop ran out: newton raises RuntimeError
NewtonExhausted ==
  /\ pc = "iter"
  /\ ~in_range(itr)
  /\ Finish([val |-> None, exc |-> "RuntimeError"], "maxiter")
  /\ UNCHANGED <<C, sensor, mode, t, R, R_input, p0, p1, q0, q1, p, itr,
                 chained>>

Next ==
  \/ \E sn \in Sensors : \E tv \in TempInputs : RunForward(sn, tv)
  \/ \E sn \in Sensors : \E Rv \in ResInputs(sn) : RunInverse(sn, Rv)
  \/ RunInverseOfShown
  \/ NewtonIter
  \/ NewtonExhausted

Spec == Init /\ [][Next]_vars


(***************************************************************************)
(* The script with the coefficient C edited, as the page itself suggests   *)
(* (lines 81-83): C is the IEC value or exactly zero.  Only the forward    *)
(* formula is run.                                                         *)
(***************************************************************************)
InitCustom ==
  /\ C \in {C_IEC, Zero}
  /\ sensor = "PT100"
  /\ mode = "Resistance from Temperature"
  /\ t = Zero
  /\ R = None
  /\ R_input = None
  /\ p0 = None /\ p1 = None /\ q0 = None /\ q1 = None /\ p = None
  /\ itr = 0
  /\ cause = "none"
  /\ t_est = None
  /\ exc = "none"
  /\ out = NoOut
  /\ chained = FALSE
  /\ pc = "input"

NextCustom == \E sn \in Sensors : \E tv \in TempInputs : RunForward(sn, tv)

SpecCustom == InitCustom /\ [][NextCustom]_vars

(***************************************************************************)
(* Properties                                                              *)
(***************************************************************************)
R0 == R0_values[sensor]

\* |a - b|
Dist(a, b) == FAbs(FSub(a, b))

\* the thousandths shown, as a number text
Shown(n) == [kind |-> "num", s |-> 0, n |-> BNFromInt(n)]

\* C1: the temperature solved from the resistance computed for t, started at
\* the default guess, is a number within 1e-4 degC of t
RoundTrip ==
  (pc = "done" /\ chained)
    => /\ t_est # None
       /\ exc = "none"
       /\ FLe(Dist(t_est, t), FromDec(0, 1, -4))

RoundTripWitness ==
  /\ pc = "done" /\ chained
  /\ FEq(t, FromInt(-200))
  /\ t_est # None

\* C2 as claimed: a resistance that no temperature attains, negative or more
\* than twice the resistance at 850 degC, ends in None and no exception
Unattainable(Rv, sn) ==
  \/ FLt(Rv, Zero)
  \/ FGt(Rv, FMul(FromInt(2),
                  CallendarVanDusen(FromInt(850), R0_values[sn], C_IEC)))

NonConvergenceSurfaced ==
  (pc = "done" /\ ~chained /\ Unattainable(R_input, sensor))
    => (t_est = None /\ exc = "none")

\* C3: when newton fails, by running out of iterations, by two equal residuals
\* or with an estimate that is not finite, the caller gets None and no
\* exception escapes
FailureIsNone ==
  /\ exc = "none"
  /\ (pc = "done" /\ cause \in {"maxiter", "zero_slope"})
       => (t_est = None /\ out.kind = "error")
  /\ (pc = "done" /\ (~IsFinite(p1) \/ (p # None /\ ~IsFinite(p))))
       => t_est = None

FailureWitness ==
  /\ pc = "done" /\ cause = "maxiter" /\ itr = maxiter
  /\ IsFinite(p) /\ IsFinite(p1)
  /\ t_est = None

\* C4: the quadratic formula for t >= 0 or C = 0, the formula with the cubic
\* term for t < 0 and C # 0
FormulaSelection ==
  pc = "shown"
    => R = IF FGe(t, Zero) \/ IsZero(C) THEN quadratic(t, R0)
           ELSE cubic(t, R0, C)

FormulaSelectionWitness ==
  pc = "shown" /\ FLt(t, Zero) /\ ~IsZero(C) /\ R # quadratic(t, R0)

\* C6: with C exactly zero the result is the quadratic formula, below zero as
\* above
NonCubicInvariance ==
  (pc = "shown" /\ IsZero(C)) => R = quadratic(t, R0)

NonCubicWitness ==
  pc = "shown" /\ IsZero(C) /\ FLt(t, FromInt(-100))

\* C5 as claimed: over the inputs, a higher temperature always gives a
\* strictly higher resistance
StrictlyMonotonic ==
  pc = "shown"
    => \A t2 \in TempInputs :
         FLt(t, t2) => FLt(R, resistance_from_temperature(t2, R0))

\* C5: a temperature higher by at least 1e-6 degC gives a strictly higher
\* resistance
MinGap == FromDec(0, 1, -6)

MonotonicApart ==
  pc = "shown"
    => \A t2 \in TempInputs :
         FGe(FSub(t2, t), MinGap)
           => FLt(R, resistance_from_temperature(t2, R0))

MonotonicWitness ==
  /\ pc = "shown"
  /\ FLt(t, Zero)
  /\ \E t2 \in MicroInputs : FGe(FSub(t2, t), MinGap) /\ FLt(t2, Zero)

\* C7: at t = 0 both formulas give exactly R0, and the results just below and
\* just above zero differ by less than 1e-9 ohm
ContinuityAtZero ==
  pc = "shown"
    => /\ IsZero(t) => (FEq(R, R0) /\ FEq(cubic(t, R0, C), quadratic(t, R0)))
       /\ (t \in TinyInputs /\ FLt(t, Zero))
            => FLt(Dist(resistance_from_temperature(FNeg(t), R0), R),
                   FromDec(0, 1, -9))

ContinuityWitness ==
  pc = "shown" /\ t \in TinyInputs /\ FLt(t, Zero) /\ FLt(R, R0)

\* C8 as claimed: PT100 shows 100.000 at 0 degC and 138.506 at 100 degC, and
\* 138.506 ohm solves to within 1e-3 degC of 100
Scenario ==
  sensor = "PT100"
    => /\ (pc = "shown" /\ IsZero(t)) => out.text = Shown(100000)
       /\ (pc = "shown" /\ FEq(t, Hundred)) => out.text = Shown(138506)
       /\ (pc = "done" /\ ~chained /\ FEq(R_input, Dec(138506, 3)))
            => (t_est # None /\ FLe(Dist(t_est, Hundred), FromDec(0, 1, -3)))

\* C8: PT100 shows 100.000 at 0 degC; at 100 degC the result is within 1e-9
\* ohm of 138.5055 and shows as 138.505; 138.506 ohm solves to within 2e-3
\* degC of 100
ScenarioComputed ==
  sensor = "PT100"
    => /\ (pc = "shown" /\ IsZero(t)) => out.text = Shown(100000)
       /\ (pc = "shown" /\ FEq(t, Hundred))
            => /\ out.text = Shown(138505)
               /\ FLe(Dist(R, Dec(1385055, 4)), FromDec(0, 1, -9))
       /\ (pc = "done" /\ ~chained /\ FEq(R_input, Dec(138506, 3)))
            => (t_est # None /\ FLe(Dist(t_est, Hundred), FromDec(0, 2, -3)))

ScenarioWitness ==
  /\ sensor = "PT100" /\ pc = "done" /\ ~chained
  /\ FEq(R_input, Dec(138506, 3))
  /\ t_est # None

\* C9: a number is returned only when the last step of the estimate was at
\* most 1e-6
ReturnedValuePassedTest ==
  (pc = "done" /\ t_est # None)
    => /\ cause = "converged"
       /\ t_est = p
       /\ FLe(Dist(p, p1), tol)

ReturnedValueWitness ==
  pc = "done" /\ t_est # None /\ ~FEq(p, p1) /\ itr > 1

\* C10: the iteration counts up by one from 0 to at most 50, goes on only
\* while the last step was above 1e-6, and ends at the first step that is not
BoundedTerminationStep ==
  pc = "iter"
    => \/ /\ pc' = "iter"
          /\ itr < maxiter
          /\ itr' = itr + 1
          /\ ~FLe(Dist(p1', p1), tol)
       \/ /\ pc' = "done"
          /\ itr' = itr
          /\ cause' \in {"converged", "zero_slope", "maxiter"}
          /\ cause' = "maxiter" => itr = maxiter
          /\ (cause' = "converged" /\ ~FEq(q1, q0)) => FLe(Dist(p', p1), tol)

=============================================================================
